---- MODULE Spec2Model ----
(***************************************************************************)
(* A model of caddy-pixbooster (module.go, cgo build).                     *)
(*                                                                         *)
(* Strings are sequences of atoms.  An atom is either a separator the      *)
(* code looks at ("." "/" "?" "," " " and the scheme prefixes "http://",   *)
(* "https://") or a run of characters that contains none of them ("a",     *)
(* "jpg", "pixbooster", ...).  strings.Split, strings.Join, url.Parse,     *)
(* URL.String, filepath.Ext and mime.TypeByExtension are computed on       *)
(* these sequences the way the Go library computes them on bytes.          *)
(***************************************************************************)
EXTENDS Integers, Sequences, FiniteSets, TLC

VARIABLES
    p,          \* the Pixbooster configuration (enable flags)
    alive,      \* FALSE once logger.Fatalf has ended the process
    storage,    \* the cache directory: file name -> content
    req,        \* the request being served by ServeHTTP and its response
    other,      \* a second request served by ServeHTTP at the same time
    doc,        \* the parsed HTML tree of the response being rewritten
    pictures,   \* result of collectPictures still to be populated
    imgs,       \* result of collectImgs still to be wrapped
    pc,         \* position of the rewrite loop of ServeHTTP
    pass,       \* number of rewrites already rendered for this document
    log,        \* history: what each wrap / populate step did
    originalURL,    \* codec: input of getOptimizedImageURL
    format,         \* codec: destination format
    optimizedURL,   \* codec: result of getOptimizedImageURL
    decodedURL      \* codec: result of getOriginalImageURL

vars == <<p, alive, storage, req, other, doc, pictures, imgs, pc, pass, log,
          originalURL, format, optimizedURL, decodedURL>>

httpVars  == <<storage, req, other>>
domVars   == <<doc, pictures, imgs, pc, pass, log>>
codecVars == <<originalURL, format, optimizedURL, decodedURL>>

----------------------------------------------------------------------------
(* Bounds of the model *)

MaxSegs == 3        \* dot-separated segments in a generated path
MaxPasses == 2      \* rewrites applied in a row to one document

----------------------------------------------------------------------------
(* Strings *)

None == <<"-none-">>

\* strings.Split(s, sep) for a one-atom separator
RECURSIVE Split(_, _)
Split(s, sep) ==
    IF \A i \in 1..Len(s) : s[i] # sep
    THEN <<s>>
    ELSE LET i == CHOOSE k \in 1..Len(s) :
                      s[k] = sep /\ \A j \in 1..(k-1) : s[j] # sep
         IN  <<SubSeq(s, 1, i-1)>> \o Split(SubSeq(s, i+1, Len(s)), sep)

\* strings.Join(parts, sep)
RECURSIVE Join(_, _)
Join(parts, sep) ==
    IF Len(parts) = 0 THEN <<>>
    ELSE IF Len(parts) = 1 THEN parts[1]
    ELSE parts[1] \o <<sep>> \o Join(Tail(parts), sep)

\* strings.Fields(s): the maximal runs free of white space
Fields(s) == SelectSeq(Split(s, " "), LAMBDA f : f # <<>>)

HasPrefix(s, pre) == Len(s) >= Len(pre) /\ SubSeq(s, 1, Len(pre)) = pre

HasSuffix(s, suf) ==
    Len(s) >= Len(suf) /\ SubSeq(s, Len(s) - Len(suf) + 1, Len(s)) = suf

\* index of the first occurrence of atom a in s, 0 when there is none
IndexOf(s, a) ==
    IF \E i \in 1..Len(s) : s[i] = a
    THEN CHOOSE i \in 1..Len(s) : s[i] = a /\ \A j \in 1..(i-1) : s[j] # a
    ELSE 0

\* percent-decoding of one atom; "%70" is the letter p
Unescape(a) == IF a = "%70ixbooster" THEN "pixbooster" ELSE a

\* an atom net/url refuses: an invalid percent escape
BadEscape(a) == a = "%zz"

UnescapeSeq(s) == [i \in 1..Len(s) |-> Unescape(s[i])]

\* url.Parse(s): query cut at the first "?", authority after a scheme or "//",
\* host up to the next "/", the rest is the path, which is percent-decoded.
\* (each stage hands its results to the next one as parameters)
parsedRecord(scheme, slashes, host, rawpath, hasQuery, rawq) ==
    [ ok       |-> \A i \in 1..Len(rawpath) : ~BadEscape(rawpath[i]),
      Scheme   |-> scheme,
      Slashes  |-> slashes,
      Host     |-> host,
      Path     |-> UnescapeSeq(rawpath),
      HasQuery |-> hasQuery,
      RawQuery |-> rawq ]

parseHost(scheme, slashes, after, h, hasQuery, rawq) ==
    IF scheme = <<>> /\ ~slashes
    THEN parsedRecord(scheme, slashes, <<>>, after, hasQuery, rawq)
    ELSE IF h = 0
    THEN parsedRecord(scheme, slashes, after, <<>>, hasQuery, rawq)
    ELSE parsedRecord(scheme, slashes, SubSeq(after, 1, h-1),
                      SubSeq(after, h, Len(after)), hasQuery, rawq)

parseAuthority(scheme, slashes, after, hasQuery, rawq) ==
    parseHost(scheme, slashes, after, IndexOf(after, "/"), hasQuery, rawq)

parseScheme(rest, hasQuery, rawq) ==
    IF Len(rest) > 0 /\ rest[1] \in {"http://", "https://"}
    THEN parseAuthority(<<rest[1]>>, FALSE, Tail(rest), hasQuery, rawq)
    ELSE IF Len(rest) >= 2 /\ rest[1] = "/" /\ rest[2] = "/"
    THEN parseAuthority(<<>>, TRUE, SubSeq(rest, 3, Len(rest)), hasQuery, rawq)
    ELSE parseAuthority(<<>>, FALSE, rest, hasQuery, rawq)

parseQuery(s, q) ==
    IF q = 0 THEN parseScheme(s, FALSE, <<>>)
    ELSE parseScheme(SubSeq(s, 1, q-1), TRUE, SubSeq(s, q+1, Len(s)))

urlParse(s) == parseQuery(s, IndexOf(s, "?"))

\* URL.String(): scheme, host, path (with "/" put before a relative path that
\* follows a host), then "?" and the query.
urlString(u) ==
    u.Scheme
    \o (IF u.Slashes THEN <<"/", "/">> ELSE <<>>)
    \o u.Host
    \o (IF u.Host # <<>> /\ u.Path # <<>> /\ u.Path[1] # "/" THEN <<"/">> ELSE <<>>)
    \o u.Path
    \o (IF u.HasQuery THEN <<"?">> \o u.RawQuery ELSE <<>>)

\* filepath.Ext(s): from the last "." of the last path element on
RECURSIVE extFrom(_, _)
extFrom(s, i) ==
    IF i = 0 THEN <<>>
    ELSE IF s[i] \in {"/", "http://", "https://"} THEN <<>>
    ELSE IF s[i] = "." THEN SubSeq(s, i, Len(s))
    ELSE extFrom(s, i-1)

filepathExt(s) == extFrom(s, Len(s))

\* mime.TypeByExtension(ext), the entries of Go's built-in table the model uses
mimeTypeByExtension(ext) ==
    IF ext \in {<<".", "jpg">>, <<".", "jpeg">>} THEN "image/jpeg"
    ELSE IF ext = <<".", "png">>  THEN "image/png"
    ELSE IF ext = <<".", "webp">> THEN "image/webp"
    ELSE IF ext = <<".", "avif">> THEN "image/avif"
    ELSE IF ext = <<".", "gif">>  THEN "image/gif"
    ELSE ""

----------------------------------------------------------------------------
(* Format registry *)

imgSuffix == <<"pixbooster">>

jxl  == [extension |-> <<".", "jxl">>,  mimeType |-> "image/jxl"]
avif == [extension |-> <<".", "avif">>, mimeType |-> "image/avif"]
webp == [extension |-> <<".", "webp">>, mimeType |-> "image/webp"]
jpg  == [extension |-> <<".", "jpg">>,  mimeType |-> "image/jpeg"]
png  == [extension |-> <<".", "png">>,  mimeType |-> "image/png"]
noFormat == [extension |-> <<>>, mimeType |-> ""]

destFormats == <<jxl, avif, webp>>
srcFormats  == <<jpg, png, webp>>

Configs ==
    [ Nojxl : BOOLEAN, Noavif : BOOLEAN, Nowebpoutput : BOOLEAN,
      Nojpeg : BOOLEAN, Nopng : BOOLEAN, Nowebpinput : BOOLEAN ]

isOutputFormatAllowed(c, f) ==
    IF f.extension = <<".", "webp">> THEN ~c.Nowebpoutput
    ELSE IF f.extension = <<".", "avif">> THEN ~c.Noavif
    ELSE IF f.extension = <<".", "jxl">> THEN ~c.Nojxl
    ELSE FALSE

\* the last format of p.srcFormats with this MIME type, imgFormat{} if none
srcFormatOf(mimeType) ==
    IF \E k \in 1..Len(srcFormats) : srcFormats[k].mimeType = mimeType
    THEN srcFormats[CHOOSE k \in 1..Len(srcFormats) :
                        /\ srcFormats[k].mimeType = mimeType
                        /\ \A j \in (k+1)..Len(srcFormats) :
                               srcFormats[j].mimeType # mimeType]
    ELSE noFormat

inputSwitch(c, fmt) ==
    IF fmt.extension = <<".", "jpg">> THEN ~c.Nojpeg
    ELSE IF fmt.extension = <<".", "png">> THEN ~c.Nopng
    ELSE IF fmt.extension = <<".", "webp">> THEN ~c.Nowebpinput
    ELSE FALSE

isInputFormatAllowed(c, filename) ==
    inputSwitch(c, srcFormatOf(mimeTypeByExtension(filepathExt(filename))))

----------------------------------------------------------------------------
(* URL codec *)

\* url.Parse fails in getOptimizedImageURL: logger.Fatalf ends the process
encodeFatal(u) == ~urlParse(u).ok

\* parsedURL.Path = parsedURL.Path + "." + p.imgSuffix + format.extension
withNewPath(parsedURL, f) ==
    [parsedURL EXCEPT !.Path = parsedURL.Path \o <<".">> \o imgSuffix \o f.extension]

getOptimizedImageURL(u, f) == urlString(withNewPath(urlParse(u), f))

\* the index of the first part equal to p.imgSuffix, 0 for the code's -1
firstSuffix(pathParts) ==
    IF \E i \in 1..Len(pathParts) : pathParts[i] = imgSuffix
    THEN CHOOSE i \in 1..Len(pathParts) :
             pathParts[i] = imgSuffix /\ \A j \in 1..(i-1) : pathParts[j] # imgSuffix
    ELSE 0

pixboosterIndex(s) == firstSuffix(Split(s, "."))

\* the marker is not found in getOriginalImageURL: logger.Fatalf ends the process
decodeFatal(s) == pixboosterIndex(s) = 0

joinBefore(pathParts, i) == Join(SubSeq(pathParts, 1, i - 1), ".")

getOriginalImageURL(s) == joinBefore(Split(s, "."), pixboosterIndex(s))

suffixInPath(parsedURL) == parsedURL.ok /\ pixboosterIndex(parsedURL.Path) # 0

isOptimizedUrl(s) == suffixInPath(urlParse(s))

----------------------------------------------------------------------------
(* HTML tree: an arena of nodes; node 1 is the root, Parent = 0 means detached
   or root; a new node takes the next free index *)

Attr(k, v) == [Key |-> k, Val |-> v]
Node(tag, attrs, kids, parent) ==
    [Data |-> tag, Attr |-> attrs, children |-> kids, Parent |-> parent]

ignoreAttr == "data-pixbooster-ignore"

hasAttr(n, name) == \E i \in 1..Len(n.Attr) : n.Attr[i].Key = name

getAttr(n, attribute) ==
    IF hasAttr(n, attribute)
    THEN n.Attr[CHOOSE i \in 1..Len(n.Attr) :
                    /\ n.Attr[i].Key = attribute
                    /\ \A j \in 1..(i-1) : n.Attr[j].Key # attribute].Val
    ELSE <<>>

\* faulty variant: the root URL of one fixed host, whatever the request
fixedRootUrl(host) == <<"http://", "host">>

\* getRootUrl for a plain-HTTP request to Host "host" with no port in the URL
getRootUrl(host) == <<"http://">> \o host

\* err == nil and imageURLParsed.Host == p.rootURL
hostIsRoot(imageURLParsed, rootURL) ==
    imageURLParsed.ok /\ imageURLParsed.Host = rootURL

isSameSite(rootURL, imageURL) ==
    IF Len(imageURL) = 0 \/ imageURL[1] \notin {"http://", "https://"}
    THEN TRUE
    ELSE hostIsRoot(urlParse(imageURL), rootURL)

\* faulty variant: looks at the parent only, not at every ancestor
parentIsPicture(d, img) ==
    d[img].Parent # 0 /\ d[d[img].Parent].Data = "picture"

RECURSIVE isImageInsidePicture(_, _)
isImageInsidePicture(d, img) ==
    LET parent == d[img].Parent
    IN  IF parent = 0 THEN FALSE
        ELSE IF d[parent].Data = "picture" THEN TRUE
        ELSE isImageInsidePicture(d, parent)

\* the test of collectImgs on one node
\* some format of p.srcFormats has this MIME type
isSrcMime(mimeType) ==
    \E i \in 1..Len(srcFormats) : srcFormats[i].mimeType = mimeType

imgTest(c, rootURL, d, n, src) ==
    /\ d[n].Data = "img"
    /\ isSameSite(rootURL, src)
    /\ ~hasAttr(d[n], ignoreAttr)
    /\ ~isImageInsidePicture(d, n)
    /\ isSrcMime(mimeTypeByExtension(filepathExt(src)))

imgCollected(c, rootURL, d, n) == imgTest(c, rootURL, d, n, getAttr(d[n], "src"))

\* collectImgs(n, imgs) is collectImgs(n) appended to imgs; imgsBelow is its
\* loop over the children of n, from child i on
RECURSIVE collectImgs(_, _, _, _)
RECURSIVE imgsBelow(_, _, _, _, _)
imgsBelow(c, rootURL, d, n, i) ==
    IF i > Len(d[n].children) THEN <<>>
    ELSE collectImgs(c, rootURL, d, d[n].children[i])
         \o imgsBelow(c, rootURL, d, n, i+1)

collectImgs(c, rootURL, d, n) ==
    (IF imgCollected(c, rootURL, d, n) THEN <<n>> ELSE <<>>)
    \o imgsBelow(c, rootURL, d, n, 1)

\* the test of collectPictures on one node
pictureCollected(d, n) == d[n].Data = "picture" /\ ~hasAttr(d[n], ignoreAttr)

RECURSIVE collectPictures(_, _)
RECURSIVE picturesBelow(_, _, _)
picturesBelow(d, n, i) ==
    IF i > Len(d[n].children) THEN <<>>
    ELSE collectPictures(d, d[n].children[i]) \o picturesBelow(d, n, i+1)

collectPictures(d, n) ==
    (IF pictureCollected(d, n) THEN <<n>> ELSE <<>>) \o picturesBelow(d, n, 1)

\* html.Node.InsertBefore(newChild, oldChild) on the children of parent
\* faulty variant: the new child goes after the reference node, not before it
insertAfter(kids, i, newChild) ==
    SubSeq(kids, 1, i) \o <<newChild>> \o SubSeq(kids, i+1, Len(kids))

insertAt(kids, i, newChild) ==
    SubSeq(kids, 1, i-1) \o <<newChild>> \o SubSeq(kids, i, Len(kids))

InsertBefore(d, parent, newChild, oldChild) ==
    [d EXCEPT ![parent].children =
                  insertAt(@, IndexOf(d[parent].children, oldChild), newChild),
              ![newChild].Parent = parent]

\* html.Node.RemoveChild(c)
RemoveChild(d, parent, c) ==
    [d EXCEPT ![parent].children = SelectSeq(d[parent].children, LAMBDA x : x # c),
              ![c].Parent = 0]

\* the attributes addSourceNode copies from the node it augments
copiedAttrs(attrs) ==
    SelectSeq(attrs, LAMBDA a : a.Key \notin {"srcset", "type", "src"})

newSourceAttrs(attrs, srcset, mimeType, copyAttr) ==
    (IF copyAttr THEN copiedAttrs(attrs) ELSE <<>>)
    \o <<Attr("srcset", srcset), Attr("type", <<mimeType>>)>>

addSourceNode(d, n, srcset, mimeType, copyAttr) ==
    InsertBefore(
        Append(d, Node("source",
                       newSourceAttrs(d[n].Attr, srcset, mimeType, copyAttr),
                       <<>>, 0)),
        d[n].Parent, Len(d) + 1, n)

\* one white-space separated token of a srcset
optimizedToken(c, rootURL, subPart, f) ==
    IF isInputFormatAllowed(c, subPart) /\ isSameSite(rootURL, subPart)
    THEN getOptimizedImageURL(subPart, f)
    ELSE subPart

\* the inner loop of getOptimizedSrcset over the fields of one part
optimizedSubParts(c, rootURL, subParts, f) ==
    Join([j \in 1..Len(subParts) |-> optimizedToken(c, rootURL, subParts[j], f)], " ")

\* the outer loop of getOptimizedSrcset over the comma separated parts
optimizedParts(c, rootURL, srcsetParts, f) ==
    Join([i \in 1..Len(srcsetParts) |->
             optimizedSubParts(c, rootURL, Fields(srcsetParts[i]), f)], ",")

getOptimizedSrcset(c, rootURL, srcset, f) ==
    optimizedParts(c, rootURL, Split(srcset, ","), f)

\* a token getOptimizedSrcset hands to getOptimizedImageURL, which cannot parse it
tokenFatal(c, rootURL, subPart) ==
    /\ isInputFormatAllowed(c, subPart)
    /\ isSameSite(rootURL, subPart)
    /\ encodeFatal(subPart)

subPartsFatal(c, rootURL, subParts) ==
    \E j \in 1..Len(subParts) : tokenFatal(c, rootURL, subParts[j])

partsFatal(c, rootURL, srcsetParts) ==
    \E i \in 1..Len(srcsetParts) : subPartsFatal(c, rootURL, Fields(srcsetParts[i]))

\* getOptimizedSrcset reaches the Fatalf of getOptimizedImageURL
srcsetFatal(c, rootURL, srcset) == partsFatal(c, rootURL, Split(srcset, ","))

\* does the src branch of addSourcesToSource apply to this node
srcTest(c, rootURL, node, src) ==
    /\ node.Data = "img"
    /\ src # <<>>
    /\ isSameSite(rootURL, src)
    /\ isInputFormatAllowed(c, src)

srcBranch(c, rootURL, node) == srcTest(c, rootURL, node, getAttr(node, "src"))

\* the loop over p.destFormats of addSourcesToSource, from format i on
\* the srcset of the new <source>: from the srcset or from the src of the node
newSrcset(c, rootURL, node, f, fromSrcset) ==
    IF fromSrcset
    THEN getOptimizedSrcset(c, rootURL, getAttr(node, "srcset"), f)
    ELSE getOptimizedImageURL(getAttr(node, "src"), f)

\* the body of the loop over p.destFormats
addForFormat(c, rootURL, d, source, f, fromSrcset) ==
    IF isOutputFormatAllowed(c, f)
    THEN addSourceNode(d, source, newSrcset(c, rootURL, d[source], f, fromSrcset),
                       f.mimeType, fromSrcset /\ d[source].Data = "source")
    ELSE d

RECURSIVE addForFormats(_, _, _, _, _, _)
addForFormats(c, rootURL, d, source, i, fromSrcset) ==
    IF i > Len(destFormats) THEN d
    ELSE addForFormats(c, rootURL,
                       addForFormat(c, rootURL, d, source, destFormats[i], fromSrcset),
                       source, i+1, fromSrcset)

\* the first loop of addSourcesToSource: if p.hasAttr(source, "srcset")
srcsetLoop(c, rootURL, d, source) ==
    IF hasAttr(d[source], "srcset")
    THEN addForFormats(c, rootURL, d, source, 1, TRUE)
    ELSE d

\* the second loop of addSourcesToSource, on the tree the first one left
srcLoop(c, rootURL, d, source) ==
    IF srcBranch(c, rootURL, d[source])
    THEN addForFormats(c, rootURL, d, source, 1, FALSE)
    ELSE d

addSourcesToSource(c, rootURL, d, source) ==
    srcLoop(c, rootURL, srcsetLoop(c, rootURL, d, source), source)

someOutputAllowed(c) ==
    \E i \in 1..Len(destFormats) : isOutputFormatAllowed(c, destFormats[i])

\* addSourcesToSource ends the process through getOptimizedImageURL
sourceFatal(c, rootURL, d, source) ==
    /\ someOutputAllowed(c)
    /\ \/ /\ hasAttr(d[source], "srcset")
          /\ srcsetFatal(c, rootURL, getAttr(d[source], "srcset"))
       \/ /\ srcBranch(c, rootURL, d[source])
          /\ encodeFatal(getAttr(d[source], "src"))

\* the nodes addSourcesToPicture expands: the <source> children, or the first
\* <img> child when there is no <source>
childrenNamed(d, picture, tag) ==
    SelectSeq(d[picture].children, LAMBDA k : d[k].Data = tag)

sourcesOrImg(sources, imgKids) ==
    IF Len(sources) = 0 /\ Len(imgKids) > 0 THEN <<imgKids[1]>> ELSE sources

candidates(d, picture) ==
    sourcesOrImg(childrenNamed(d, picture, "source"), childrenNamed(d, picture, "img"))

\* for _, source := range sources { p.addSourcesToSource(source) }, from i on
RECURSIVE addForSources(_, _, _, _, _)
addForSources(c, rootURL, d, sources, i) ==
    IF i > Len(sources) THEN d
    ELSE addForSources(c, rootURL,
                       addSourcesToSource(c, rootURL, d, sources[i]), sources, i+1)

addSourcesToPicture(c, rootURL, d, picture) ==
    IF d[picture].Data # "picture" THEN d
    ELSE addForSources(c, rootURL, d, candidates(d, picture), 1)

someSourceFatal(c, rootURL, d, sources) ==
    \E i \in 1..Len(sources) : sourceFatal(c, rootURL, d, sources[i])

pictureFatal(c, rootURL, d, picture) ==
    /\ d[picture].Data = "picture"
    /\ someSourceFatal(c, rootURL, d, candidates(d, picture))

\* faulty variant: alt is copied to the <picture> as well
pictureAttrsWithAlt(attrs) ==
    SelectSeq(attrs, LAMBDA a : a.Key \notin {"src", "srcset"})

\* the attributes wrapImgWithPicture gives the new <picture>
pictureAttrs(attrs) ==
    SelectSeq(attrs, LAMBDA a : a.Key \notin {"src", "alt", "srcset"})

\* the tree of wrapImgWithPicture before its call of addSourcesToPicture
\* picture.AppendChild(img): the two new nodes
withPicture(d, n, picture, img) ==
    d \o << Node("picture", pictureAttrs(d[n].Attr), <<img>>, 0),
            Node("img", d[n].Attr, <<>>, picture) >>

wrapped(d, n) ==
    RemoveChild(
        InsertBefore(withPicture(d, n, Len(d) + 1, Len(d) + 2),
                     d[n].Parent, Len(d) + 1, n),
        d[n].Parent, n)

wrapImgWithPicture(c, rootURL, d, n) ==
    addSourcesToPicture(c, rootURL, wrapped(d, n), Len(d) + 1)

wrapFatal(c, rootURL, d, n) == pictureFatal(c, rootURL, wrapped(d, n), Len(d) + 1)

\* html.Render followed by html.Parse of the result: the nodes still attached,
\* in document order
RECURSIVE Preorder(_, _)
RECURSIVE preorderBelow(_, _, _)
preorderBelow(d, n, i) ==
    IF i > Len(d[n].children) THEN <<>>
    ELSE Preorder(d, d[n].children[i]) \o preorderBelow(d, n, i+1)

Preorder(d, n) == <<n>> \o preorderBelow(d, n, 1)

newIndex(order, old) == IF old = 0 THEN 0 ELSE IndexOf(order, old)

reparsedNode(order, node) ==
    Node(node.Data, node.Attr,
         [k \in 1..Len(node.children) |-> newIndex(order, node.children[k])],
         newIndex(order, node.Parent))

reparsed(d, order) == [i \in 1..Len(order) |-> reparsedNode(order, d[order[i]])]

Reparse(d) == reparsed(d, Preorder(d, 1))

----------------------------------------------------------------------------
(* Inputs of the URL codec: original image URLs *)

Words == {"a", "jpg", "pixbooster", "%70ixbooster"}

\* all paths of n dot-separated words
RECURSIVE DotPaths(_)
DotPaths(n) ==
    IF n = 1 THEN {<<w>> : w \in Words}
    ELSE {q \o <<".", w>> : q \in DotPaths(n-1), w \in Words}

Prefixes ==
    { <<>>, <<"/">>, <<"http://", "host", "/">>,
      <<"http://", "www", ".", "pixbooster", ".", "com", "/">> }

Queries == { <<>>, <<"?", "v">>, <<"?", "v", ".", "1">> }

URLs ==
    { pre \o path \o q :
        pre \in Prefixes, path \in UNION {DotPaths(n) : n \in 1..MaxSegs}, q \in Queries }

OutputConfigs ==
    { c \in Configs : ~c.Nojpeg /\ ~c.Nopng /\ ~c.Nowebpinput }

DestFormatSet == {destFormats[i] : i \in 1..Len(destFormats)}

----------------------------------------------------------------------------
(* The codec applied to one URL: encode, then decode *)

\* no request has reached the handler yet
NoRequest == [pc |-> "idle"]

IdleHttp == storage = {} /\ req = NoRequest /\ other = NoRequest
IdleDom  == doc = <<>> /\ pictures = <<>> /\ imgs = <<>> /\ pc = "off"
            /\ pass = 0 /\ log = <<>>
IdleCodec == originalURL = None /\ format = noFormat
             /\ optimizedURL = None /\ decodedURL = None

CodecInit ==
    /\ p \in OutputConfigs
    /\ alive = TRUE
    /\ originalURL \in URLs
    /\ format \in DestFormatSet
    /\ optimizedURL = None
    /\ decodedURL = None
    /\ IdleHttp
    /\ IdleDom

Encode ==
    /\ alive
    /\ optimizedURL = None
    /\ IF encodeFatal(originalURL)
       THEN alive' = FALSE /\ UNCHANGED optimizedURL
       ELSE /\ optimizedURL' = getOptimizedImageURL(originalURL, format)
            /\ UNCHANGED alive
    /\ UNCHANGED <<p, httpVars, domVars, originalURL, format, decodedURL>>

Decode ==
    /\ alive
    /\ optimizedURL # None
    /\ decodedURL = None
    /\ IF decodeFatal(optimizedURL)
       THEN alive' = FALSE /\ UNCHANGED decodedURL
       ELSE /\ decodedURL' = getOriginalImageURL(optimizedURL)
            /\ UNCHANGED alive
    /\ UNCHANGED <<p, httpVars, domVars, originalURL, format, optimizedURL>>

CodecNext == Encode \/ Decode

SpecCodec == CodecInit /\ [][CodecNext]_vars

----------------------------------------------------------------------------
(* Documents served by the downstream handler *)

aJpg == <<"a", ".", "jpg">>
bPng == <<"b", ".", "png">>
cGif == <<"c", ".", "gif">>
dWebp == <<"d", ".", "webp">>

style == Attr("style", <<"width:", " ", "100px">>)
title == Attr("title", <<"test">>)
alt   == Attr("alt", <<"alt">>)
media == Attr("media", <<"(min-width:", " ", "800px)">>)
ignore == Attr(ignoreAttr, <<>>)

ImgAttrs ==
    { <<Attr("src", aJpg)>>,
      <<Attr("src", aJpg), style, title, alt>>,
      <<Attr("src", bPng), Attr("srcset", bPng \o <<" ", "2x", ",", " ">> \o aJpg \o <<" ", "1x">>), alt>>,
      <<Attr("src", cGif), title>>,
      <<Attr("src", dWebp)>>,
      <<Attr("src", <<"http://", "other", "/">> \o aJpg)>>,
      <<Attr("src", <<"http://", "host", "/">> \o aJpg)>>,
      <<Attr("src", aJpg \o <<"?", "v">>)>>,
      <<Attr("src", <<"%zz", ".", "jpg">>)>>,
      <<Attr("src", aJpg), ignore, alt>>,
      <<alt>> }

SourceAttrs ==
    { <<Attr("srcset", bPng), Attr("type", <<"image/png">>), media>>,
      <<Attr("srcset", bPng)>>,
      <<media, Attr("srcset", bPng \o <<" ", "2x", ",", " ">> \o cGif \o <<" ", "1x">>)>>,
      <<Attr("srcset", cGif), Attr("type", <<"image/gif">>)>>,
      <<media>> }

Shapes ==
    { "img", "img-img", "div-img", "picture-img", "picture-div-img",
      "picture-source-img", "picture-source-source-img",
      "ignored-div-img", "ignored-picture-img", "ignored-picture-source-img",
      "ignored-div-picture-source-img" }

WithSource ==
    { "picture-source-img", "picture-source-source-img",
      "ignored-picture-source-img", "ignored-div-picture-source-img" }

\* the tree html.Parse builds; node 1 stands for <html><head/><body>
MkDoc(shape, ia, sa) ==
    LET body(kids) == Node("body", <<>>, kids, 0)
        img(par) == Node("img", ia, <<>>, par)
        src(par) == Node("source", sa, <<>>, par)
        src2(par) == Node("source", <<Attr("srcset", aJpg)>>, <<>>, par)
    IN  CASE shape = "img" ->
               << body(<<2>>), img(1) >>
          [] shape = "img-img" ->
               << body(<<2, 3>>), Node("img", <<Attr("src", bPng)>>, <<>>, 1), img(1) >>
          [] shape = "div-img" ->
               << body(<<2>>), Node("div", <<>>, <<3>>, 1), img(2) >>
          [] shape = "picture-img" ->
               << body(<<2>>), Node("picture", <<>>, <<3>>, 1), img(2) >>
          [] shape = "picture-div-img" ->
               << body(<<2>>), Node("picture", <<>>, <<3>>, 1),
                  Node("div", <<>>, <<4>>, 2), img(3) >>
          [] shape = "picture-source-img" ->
               << body(<<2>>), Node("picture", <<>>, <<3, 4>>, 1), src(2), img(2) >>
          [] shape = "picture-source-source-img" ->
               << body(<<2>>), Node("picture", <<>>, <<3, 4, 5>>, 1),
                  src2(2), src(2), img(2) >>
          [] shape = "ignored-div-img" ->
               << body(<<2>>), Node("div", <<ignore>>, <<3>>, 1), img(2) >>
          [] shape = "ignored-picture-img" ->
               << body(<<2>>), Node("picture", <<ignore>>, <<3>>, 1), img(2) >>
          [] shape = "ignored-picture-source-img" ->
               << body(<<2>>), Node("picture", <<ignore>>, <<3, 4>>, 1), src(2), img(2) >>
          [] shape = "ignored-div-picture-source-img" ->
               << body(<<2>>), Node("div", <<ignore>>, <<3>>, 1),
                  Node("picture", <<>>, <<4, 5>>, 2), src(3), img(3) >>

Docs ==
    { MkDoc(shape, ia, sa) :
        shape \in Shapes \ WithSource, ia \in ImgAttrs, sa \in {<<>>} }
    \cup
    { MkDoc(shape, ia, sa) :
        shape \in WithSource, ia \in ImgAttrs, sa \in SourceAttrs }

siteHost == <<"host">>

----------------------------------------------------------------------------
(* The rewrite of one text/html response in ServeHTTP, and the same document
   served through the handler again *)

NoStep == [op |-> "none", n |-> 0, before |-> <<>>]

DomInit ==
    /\ p \in Configs
    /\ alive = TRUE
    /\ doc \in Docs
    /\ pictures = <<>>
    /\ imgs = <<>>
    /\ pc = "collect"
    /\ pass = 0
    /\ log = NoStep
    /\ IdleHttp
    /\ IdleCodec

\* pictures := collectPictures(doc); imgs := collectImgs(doc)
Collect ==
    /\ alive
    /\ pc = "collect"
    /\ pictures' = collectPictures(doc, 1)
    /\ imgs' = collectImgs(p, getRootUrl(siteHost), doc, 1)
    /\ pc' = "rewrite"
    /\ log' = [op |-> "collect", n |-> 0, before |-> doc]
    /\ UNCHANGED <<p, alive, doc, pass, httpVars, codecVars>>

\* one turn of: for _, img := range imgs { p.wrapImgWithPicture(img) }
Wrap ==
    /\ alive
    /\ pc = "rewrite"
    /\ imgs # <<>>
    /\ IF wrapFatal(p, getRootUrl(siteHost), doc, Head(imgs))
       THEN /\ alive' = FALSE
            /\ UNCHANGED <<doc, imgs, log>>
       ELSE /\ doc' = wrapImgWithPicture(p, getRootUrl(siteHost), doc, Head(imgs))
            /\ imgs' = Tail(imgs)
            /\ log' = [op |-> "wrap", n |-> Head(imgs), before |-> doc]
            /\ UNCHANGED alive
    /\ UNCHANGED <<p, pictures, pc, pass, httpVars, codecVars>>

\* one turn of: for _, picture := range pictures { p.addSourcesToPicture(picture) }
Populate ==
    /\ alive
    /\ pc = "rewrite"
    /\ imgs = <<>>
    /\ pictures # <<>>
    /\ IF pictureFatal(p, getRootUrl(siteHost), doc, Head(pictures))
       THEN /\ alive' = FALSE
            /\ UNCHANGED <<doc, pictures, log>>
       ELSE /\ doc' = addSourcesToPicture(p, getRootUrl(siteHost), doc, Head(pictures))
            /\ pictures' = Tail(pictures)
            /\ log' = [op |-> "populate", n |-> Head(pictures), before |-> doc]
            /\ UNCHANGED alive
    /\ UNCHANGED <<p, imgs, pc, pass, httpVars, codecVars>>

\* html.Render of the rewritten tree, written to the client
Render ==
    /\ alive
    /\ pc = "rewrite"
    /\ imgs = <<>>
    /\ pictures = <<>>
    /\ pc' = "done"
    /\ pass' = pass + 1
    /\ log' = [op |-> "render", n |-> 0, before |-> doc]
    /\ UNCHANGED <<p, alive, doc, pictures, imgs, httpVars, codecVars>>

\* the rendered document goes through the handler again: html.Parse
NextPass ==
    /\ alive
    /\ pc = "done"
    /\ pass < MaxPasses
    /\ doc' = Reparse(doc)
    /\ pc' = "collect"
    /\ log' = [op |-> "parse", n |-> 0, before |-> doc]
    /\ UNCHANGED <<p, alive, pictures, imgs, pass, httpVars, codecVars>>

DomNext == Collect \/ Wrap \/ Populate \/ Render \/ NextPass

SpecDom == DomInit /\ [][DomNext]_vars

\* C1: for every original URL U and every enabled destination format F,
\* getOriginalImageURL(getOptimizedImageURL(U, F)) = U.
C1_RoundTrip ==
    (decodedURL # None /\ isOutputFormatAllowed(p, format))
        => decodedURL = originalURL

----------------------------------------------------------------------------
(* ServeHTTP: requests, the fetch of the original, the cache directory *)

\* what http.Get(imgURL) gives convertImageToFormat: a transport error, or a
\* response with a status, a declared Content-Type and a body the decoder
\* accepts or not
Upstreams ==
    { [kind |-> "error", status |-> 0,   contentType |-> "",           valid |-> FALSE],
      [kind |-> "resp",  status |-> 200, contentType |-> "image/jpeg", valid |-> TRUE],
      [kind |-> "resp",  status |-> 200, contentType |-> "image/png",  valid |-> FALSE],
      [kind |-> "resp",  status |-> 200, contentType |-> "image/webp", valid |-> TRUE],
      [kind |-> "resp",  status |-> 404, contentType |-> "image/png",  valid |-> TRUE],
      [kind |-> "resp",  status |-> 404, contentType |-> "text/html",  valid |-> FALSE] }

\* the encoded image convertImageToFormat returns: the f-encoding of what was
\* fetched at imgURL
Converted(imgURL, f) == [format |-> f.extension, of |-> imgURL]

\* convertImageToFormat returns an error
convertFails(up, f) ==
    \/ up.kind = "error"
    \/ up.contentType \notin {"image/jpeg", "image/png", "image/webp"}
    \/ ~up.valid
    \/ f.extension \notin {<<".", "webp">>, <<".", "avif">>, <<".", "jxl">>}

\* a file that holds no byte
EmptyFile == [format |-> <<>>, of |-> <<>>]

\* getOptimizedFileName: the hex md5 of r.URL.Path
getOptimizedFileName(path) == <<"md5", path>>

\* os.ReadFile finds the file
cached(st, name) == \E e \in st : e.name = name

fileData(st, name) == (CHOOSE e \in st : e.name = name).data

\* the file holds data after os.Create (truncated) or file.Write
withFile(st, name, data) ==
    {e \in st : e.name # name} \cup {[name |-> name, data |-> data]}

\* faulty variant: a path that ends in no registered extension is taken for
\* the first destination format
firstOrDefault(path, hits) == IF Len(hits) = 0 THEN destFormats[1] ELSE hits[1]

\* the first format of p.destFormats whose extension ends the path
firstFormat(path, hits) == IF Len(hits) = 0 THEN noFormat ELSE hits[1]

requestedFormat(path) ==
    firstFormat(path, SelectSeq(destFormats, LAMBDA f : HasSuffix(path, f.extension)))

\* the Content-Type net/http puts on a response whose handler set none:
\* http.DetectContentType knows WebP, it knows neither AVIF nor JPEG XL
DetectContentType(data) ==
    IF data = EmptyFile THEN <<"text/plain", ";", " ", "charset=utf-8">>
    ELSE IF data.format = <<".", "webp">> THEN <<"image/webp">>
    ELSE <<"application/octet-stream">>

textPlain == <<"text/plain", ";", " ", "charset=utf-8">>

\* the downstream responses next.ServeHTTP records
NextBodies ==
    { MkDoc("img", <<Attr("src", aJpg), alt>>, <<>>),
      MkDoc("picture-source-img", <<Attr("src", aJpg)>>, <<Attr("srcset", bPng), media>>),
      MkDoc("div-img", <<Attr("src", <<"%zz", ".", "jpg">>)>>, <<>>) }

NextTypes ==
    { <<"text/html">>, <<"text/html", ";", " ", "charset=utf-8">>,
      <<"text/plain">>, <<"image/svg+xml">>, <<>> }

NextResponses ==
    [ status : {200, 404}, ContentType : NextTypes,
      ContentLength : {<<"120">>}, body : NextBodies ]

NoNext == [status |-> 0, ContentType |-> <<>>, ContentLength |-> <<>>, body |-> <<>>]
NoUpstream == [kind |-> "none", status |-> 0, contentType |-> "", valid |-> FALSE]

slashA == <<"/", "a", ".", "jpg">>

VirtualURIs ==
    { slashA \o <<".", "pixbooster", ".", "jxl">>,
      slashA \o <<".", "pixbooster", ".", "avif">>,
      slashA \o <<".", "pixbooster", ".", "webp">>,
      slashA \o <<".", "pixbooster", ".", "gif">>,
      slashA \o <<".", "pixbooster", ".", "avif", "?", "v">>,
      slashA \o <<".", "%70ixbooster", ".", "jxl">> }

PlainURIs == { <<"/", "index", ".", "html">>, slashA }

HttpConfigs ==
    { c \in Configs :
        /\ ~c.Nopng /\ ~c.Nowebpinput
        /\ \/ ~c.Nojxl /\ ~c.Noavif /\ ~c.Nowebpoutput
           \/ ~c.Nojpeg /\ ~c.Nojxl /\ c.Noavif /\ ~c.Nowebpoutput
           \/ ~c.Nojpeg /\ c.Nojxl /\ ~c.Noavif /\ c.Nowebpoutput }

\* r.URL.Path: the request target without its query, percent-decoded
pathOf(uri, q) == UnescapeSeq(IF q = 0 THEN uri ELSE SubSeq(uri, 1, q-1))

urlPath(uri) == pathOf(uri, IndexOf(uri, "?"))

\* the request as ServeHTTP receives it, nothing written yet
NewRequest(c, uri, host, up, faulty, hasNext, nx) ==
    [ p |-> c, RequestURI |-> uri, Path |-> urlPath(uri), Host |-> host,
      upstream |-> up, readFault |-> faulty, hasNext |-> hasNext, next |-> nx,
      pc |-> "serve",
      status |-> 0, ContentType |-> <<>>, ContentLength |-> <<>>, body |-> EmptyFile,
      fetched |-> None, nextCalls |-> 0, fromCache |-> FALSE, data |-> EmptyFile,
      err |-> FALSE ]

\* http.Error(w, msg, code)
httpError(r, code) ==
    [r EXCEPT !.status = code, !.ContentType = textPlain,
              !.body = EmptyFile, !.pc = "done"]

\* return err: ServeHTTP hands a non-nil error to the server
returned(r) == [r EXCEPT !.err = TRUE, !.pc = "done"]

Outcome(r, fatal) == [req |-> r, fatal |-> fatal]

\* lines 120-141: convertImageToFormat, then the converted bytes are written
convertOutcome(r, f, imgURL) ==
    IF convertFails(r.upstream, f)
    THEN Outcome([returned(httpError(r, 500)) EXCEPT !.fetched = imgURL], FALSE)
    ELSE Outcome([r EXCEPT !.status = 200, !.ContentType = <<f.mimeType>>,
                           !.body = Converted(imgURL, f), !.fetched = imgURL,
                           !.data = Converted(imgURL, f), !.pc = "create"], FALSE)

\* line 118: getOriginalImageURL(p.rootURL + r.RequestURI)
originalOutcome(r, f, fullURL) ==
    IF decodeFatal(fullURL)
    THEN Outcome(r, TRUE)
    ELSE convertOutcome(r, f, getOriginalImageURL(fullURL))

\* lines 100-116: the destination format of the request
formatOutcome(r, f) ==
    IF f = noFormat THEN Outcome(returned(httpError(r, 400)), FALSE)
    ELSE IF ~isOutputFormatAllowed(r.p, f) THEN Outcome(httpError(r, 500), FALSE)
    ELSE originalOutcome(r, f, getRootUrl(r.Host) \o r.RequestURI)

\* lines 89-97: the cache file is read first
cacheOutcome(r, st, name) ==
    IF r.readFault
    THEN Outcome(returned(httpError(r, 500)), FALSE)
    ELSE IF cached(st, name)
    THEN Outcome([r EXCEPT !.status = 200, !.body = fileData(st, name),
                           !.fromCache = TRUE, !.pc = "done"], FALSE)
    ELSE formatOutcome(r, requestedFormat(r.Path))

virtualOutcome(r, st) == cacheOutcome(r, st, getOptimizedFileName(r.Path))

\* the loops of lines 173-179 on the tree st.d; st.fatal once Fatalf was reached
wrapOne(c, rootURL, st, n) ==
    IF st.fatal THEN st
    ELSE IF wrapFatal(c, rootURL, st.d, n) THEN [st EXCEPT !.fatal = TRUE]
    ELSE [st EXCEPT !.d = wrapImgWithPicture(c, rootURL, st.d, n)]

RECURSIVE wrapAll(_, _, _, _, _)
wrapAll(c, rootURL, st, nodes, i) ==
    IF i > Len(nodes) THEN st
    ELSE wrapAll(c, rootURL, wrapOne(c, rootURL, st, nodes[i]), nodes, i+1)

populateOne(c, rootURL, st, n) ==
    IF st.fatal THEN st
    ELSE IF pictureFatal(c, rootURL, st.d, n) THEN [st EXCEPT !.fatal = TRUE]
    ELSE [st EXCEPT !.d = addSourcesToPicture(c, rootURL, st.d, n)]

RECURSIVE populateAll(_, _, _, _, _)
populateAll(c, rootURL, st, nodes, i) ==
    IF i > Len(nodes) THEN st
    ELSE populateAll(c, rootURL, populateOne(c, rootURL, st, nodes[i]), nodes, i+1)

\* lines 170-179: both lists are collected before the tree is changed
rewriteAll(c, rootURL, d) ==
    populateAll(c, rootURL,
                wrapAll(c, rootURL, [d |-> d, fatal |-> FALSE],
                        collectImgs(c, rootURL, d, 1), 1),
                collectPictures(d, 1), 1)

\* faulty variant: every text/* response is taken for HTML
isTextType(contentType) ==
    Len(contentType) > 0 /\ contentType[1] \in {"text/html", "text/plain"}

\* strings.HasPrefix(contentType, "text/html")
isHtmlType(contentType) == HasPrefix(contentType, <<"text/html">>)

\* lines 181-194: the rendered tree with the recorded status and headers
htmlOutcome(r, st) ==
    IF st.fatal THEN Outcome(r, TRUE)
    ELSE Outcome([r EXCEPT !.status = r.next.status,
                           !.ContentType = r.next.ContentType,
                           !.ContentLength = r.next.ContentLength,
                           !.body = Reparse(st.d),
                           !.nextCalls = 1, !.pc = "done"], FALSE)

\* lines 197-204: the recorded response is copied to the client
copyOutcome(r) ==
    Outcome([r EXCEPT !.status = r.next.status,
                      !.ContentType = r.next.ContentType,
                      !.ContentLength = r.next.ContentLength,
                      !.body = r.next.body,
                      !.nextCalls = 1, !.pc = "done"], FALSE)

\* lines 153-208
nextOutcome(r) ==
    IF ~r.hasNext THEN Outcome(httpError(r, 404), FALSE)
    ELSE IF isHtmlType(r.next.ContentType)
    THEN htmlOutcome(r, rewriteAll(r.p, getRootUrl(r.Host), r.next.body))
    ELSE copyOutcome(r)

serveOutcome(r, st) ==
    IF isOptimizedUrl(r.Path) THEN virtualOutcome(r, st) ELSE nextOutcome(r)

HttpInit ==
    /\ p \in HttpConfigs
    /\ alive = TRUE
    /\ storage = {}
    /\ req = NoRequest
    /\ other = NoRequest
    /\ IdleDom
    /\ IdleCodec

\* a request for a virtual URL reaches the handler
ArriveVirtual ==
    /\ alive
    /\ req.pc \in {"idle", "done"}
    /\ other.pc \in {"idle", "done"}
    /\ \E uri \in VirtualURIs, faulty \in BOOLEAN :
           req' = NewRequest(p, uri, siteHost, NoUpstream, faulty, TRUE, NoNext)
    /\ other' = NoRequest
    /\ UNCHANGED <<p, alive, storage, domVars, codecVars>>

\* a request for any other URL reaches the handler
ArrivePlain ==
    /\ alive
    /\ req.pc \in {"idle", "done"}
    /\ other.pc \in {"idle", "done"}
    /\ \E uri \in PlainURIs, hasNext \in BOOLEAN :
           req' = NewRequest(p, uri, siteHost, NoUpstream, FALSE, hasNext, NoNext)
    /\ other' = NoRequest
    /\ UNCHANGED <<p, alive, storage, domVars, codecVars>>

\* ServeHTTP on request r, up to the response
ServeWith(r) ==
    /\ req' = serveOutcome(r, storage).req
    /\ alive' = ~serveOutcome(r, storage).fatal

\* ServeHTTP up to the response: lines 85-141 for a virtual URL, 153-208
\* otherwise; http.Get and next.ServeHTTP answer what the origin and the
\* downstream handler answer at that moment
Serve ==
    /\ alive
    /\ req.pc = "serve"
    /\ IF isOptimizedUrl(req.Path)
       THEN \E up \in Upstreams : ServeWith([req EXCEPT !.upstream = up])
       ELSE IF req.hasNext
       THEN \E nx \in NextResponses : ServeWith([req EXCEPT !.next = nx])
       ELSE ServeWith(req)
    /\ UNCHANGED <<p, storage, other, domVars, codecVars>>

\* lines 143-146: os.Create(optimizedFileName) truncates or creates the file,
\* or fails and ServeHTTP returns the error
CreateFile ==
    /\ alive
    /\ req.pc = "create"
    /\ \/ /\ storage' = withFile(storage, getOptimizedFileName(req.Path), EmptyFile)
          /\ req' = [req EXCEPT !.pc = "write"]
       \/ /\ req' = returned(req)
          /\ UNCHANGED storage
    /\ UNCHANGED <<p, alive, other, domVars, codecVars>>

\* lines 149-150: file.Write(data) writes the bytes, or fails before any byte
\* is written and ServeHTTP returns the error
WriteFile ==
    /\ alive
    /\ req.pc = "write"
    /\ \/ /\ storage' = withFile(storage, getOptimizedFileName(req.Path), req.data)
          /\ req' = [req EXCEPT !.pc = "done"]
       \/ /\ req' = returned(req)
          /\ UNCHANGED storage
    /\ UNCHANGED <<p, alive, other, domVars, codecVars>>

\* ServeHTTP runs for a second request of the same URL while the first one is
\* between its response and the end of its cache write (lines 85-141)
OtherServe ==
    /\ alive
    /\ req.pc \in {"create", "write"}
    /\ other.pc = "idle"
    /\ other' = serveOutcome(NewRequest(p, req.RequestURI, siteHost, req.upstream,
                                        FALSE, TRUE, NoNext), storage).req
    /\ UNCHANGED <<p, alive, storage, req, domVars, codecVars>>

\* lines 143-146 of the second request
OtherCreate ==
    /\ alive
    /\ other.pc = "create"
    /\ storage' = withFile(storage, getOptimizedFileName(other.Path), EmptyFile)
    /\ other' = [other EXCEPT !.pc = "write"]
    /\ UNCHANGED <<p, alive, req, domVars, codecVars>>

\* lines 149-150 of the second request
OtherWrite ==
    /\ alive
    /\ other.pc = "write"
    /\ storage' = withFile(storage, getOptimizedFileName(other.Path), other.data)
    /\ other' = [other EXCEPT !.pc = "done"]
    /\ UNCHANGED <<p, alive, req, domVars, codecVars>>

\* the configuration is loaded again (UnmarshalCaddyfile, Provision); the files
\* of the storage directory stay
Reload ==
    /\ alive
    /\ \E c \in HttpConfigs : c # p /\ p' = c
    /\ UNCHANGED <<alive, storage, req, other, domVars, codecVars>>

HttpNext == ArriveVirtual \/ ArrivePlain \/ Serve \/ CreateFile \/ WriteFile \/ Reload

SpecHttp == HttpInit /\ [][HttpNext]_vars

\* requests for virtual URLs, two of them at a time
RaceNext ==
    \/ ArriveVirtual \/ Serve \/ CreateFile \/ WriteFile
    \/ OtherServe \/ OtherCreate \/ OtherWrite

SpecRace == HttpInit /\ [][RaceNext]_vars

\* the host names under which the handler and its storage are reached
Hosts == {siteHost, <<"other">>}

\* a request for a virtual URL reaches the handler under one of its host names
ArriveAt ==
    /\ alive
    /\ req.pc \in {"idle", "done"}
    /\ other.pc \in {"idle", "done"}
    /\ \E uri \in VirtualURIs, host \in Hosts :
           req' = NewRequest(p, uri, host, NoUpstream, FALSE, TRUE, NoNext)
    /\ other' = NoRequest
    /\ UNCHANGED <<p, alive, storage, domVars, codecVars>>

\* requests for virtual URLs under several host names, two of them at a time
SitesNext ==
    \/ ArriveAt \/ Serve \/ CreateFile \/ WriteFile
    \/ OtherServe \/ OtherCreate \/ OtherWrite

SpecSites == HttpInit /\ [][SitesNext]_vars

----------------------------------------------------------------------------
(* Claims about the rewrite *)

\* the proper ancestors of node n in tree d
RECURSIVE Ancestors(_, _)
Ancestors(d, n) ==
    IF d[n].Parent = 0 THEN {} ELSE {d[n].Parent} \cup Ancestors(d, d[n].Parent)

HasPictureAncestor(d, n) == \E a \in Ancestors(d, n) : d[a].Data = "picture"

\* the nodes of the subtree of n in tree d
Subtree(d, n) == {n} \cup {m \in 1..Len(d) : n \in Ancestors(d, m)}

EnabledFormats(c) == SelectSeq(destFormats, LAMBDA f : isOutputFormatAllowed(c, f))

AttrsExcept(attrs, keys) == SelectSeq(attrs, LAMBDA a : a.Key \notin keys)

\* <original>.<marker><destination extension>
ExpectedVirtual(src, f) == src \o <<".", "pixbooster">> \o f.extension

RewriteStep == log.op \in {"wrap", "populate"}

\* C2: running the rewrite on the output of a first rewrite adds no node and
\* changes nothing: every step of a second pass leaves the tree as it was.
C2_Idempotent == (pass >= 1 /\ RewriteStep) => doc = log.before

\* C7: an element that carries data-pixbooster-ignore, and every node beneath
\* it, is unchanged by every step of the rewrite.
C7_OptOutSubtree ==
    RewriteStep =>
        \A x \in 1..Len(log.before) :
            hasAttr(log.before[x], ignoreAttr) =>
                \A y \in Subtree(log.before, x) :
                    /\ doc[y].Data = log.before[y].Data
                    /\ doc[y].Attr = log.before[y].Attr
                    /\ doc[y].children = log.before[y].children

\* C8: an <img> that has a <picture> among its ancestors, at any depth, is never
\* wrapped, on the first pass or on a later one.
C8_NeverWrappedInsidePicture ==
    log.op = "wrap" => ~HasPictureAncestor(log.before, log.n)

\* an eligible <img> two levels below a <picture> has gone through two whole
\* passes and is still where it was
C8_Witness ==
    /\ pc = "done" /\ pass = 2
    /\ ~p.Nojpeg /\ ~p.Nojxl
    /\ \E n \in 1..Len(doc) :
           /\ doc[n].Data = "img"
           /\ getAttr(doc[n], "src") = aJpg
           /\ ~hasAttr(doc[n], ignoreAttr)
           /\ doc[n].Parent # 0
           /\ doc[doc[n].Parent].Data = "div"
           /\ HasPictureAncestor(doc, n)

\* the last step wrapped an eligible <img> (same-site, enabled source format)
\* that has a plain src and no srcset
C5_Case ==
    /\ log.op = "wrap"
    /\ ~hasAttr(log.before[log.n], "srcset")
    /\ isInputFormatAllowed(p, getAttr(log.before[log.n], "src"))

\* C5: wrapImgWithPicture on an eligible <img> with a plain src puts, at the
\* position of the img, a <picture> with the img's attributes except src, alt
\* and srcset, whose children are one <source srcset=encode(src,F) type=MIME(F)>
\* per enabled destination format in priority order, then one <img> with the
\* original attributes.
C5_WrapShape ==
    C5_Case =>
        LET b    == log.before
            n    == log.n
            par  == b[n].Parent
            pos  == IndexOf(b[par].children, n)
            pic  == doc[par].children[pos]
            kids == doc[pic].children
            fs   == EnabledFormats(p)
            src  == getAttr(b[n], "src")
        IN  /\ Len(doc[par].children) = Len(b[par].children)
            /\ \A i \in 1..Len(b[par].children) :
                   i # pos => doc[par].children[i] = b[par].children[i]
            /\ pic > Len(b)
            /\ doc[pic].Data = "picture"
            /\ doc[pic].Parent = par
            /\ doc[pic].Attr = AttrsExcept(b[n].Attr, {"src", "alt", "srcset"})
            /\ Len(kids) = Len(fs) + 1
            /\ \A i \in 1..Len(fs) :
                   /\ doc[kids[i]].Data = "source"
                   /\ doc[kids[i]].children = <<>>
                   /\ doc[kids[i]].Attr =
                          << Attr("srcset", ExpectedVirtual(src, fs[i])),
                             Attr("type", <<fs[i].mimeType>>) >>
            /\ doc[kids[Len(kids)]].Data = "img"
            /\ doc[kids[Len(kids)]].Attr = b[n].Attr
            /\ doc[kids[Len(kids)]].children = <<>>

\* the README example: <img src style title alt> wrapped with the three formats on
C5_Witness ==
    /\ C5_Case
    /\ Len(EnabledFormats(p)) = 3
    /\ hasAttr(log.before[log.n], "alt")
    /\ hasAttr(log.before[log.n], "style")
    /\ Len(doc[doc[log.before[log.n].Parent].children[1]].children) = 4

\* the last step populated a <picture> that already had <source> children
C6_Case ==
    /\ log.op = "populate"
    /\ \E i \in 1..Len(log.before[log.n].children) :
           log.before[log.before[log.n].children[i]].Data = "source"

\* what C6 expects before one old child c of the picture: for a <source> with
\* srcset, one new source per enabled format, in priority order
C6_NewBefore(b, c) ==
    IF b[c].Data = "source" /\ hasAttr(b[c], "srcset")
    THEN [i \in 1..Len(EnabledFormats(p)) |->
            << "new",
               AttrsExcept(b[c].Attr, {"srcset", "type"})
               \o << Attr("srcset",
                          getOptimizedSrcset(p, getRootUrl(siteHost),
                                             getAttr(b[c], "srcset"),
                                             EnabledFormats(p)[i])),
                     Attr("type", <<EnabledFormats(p)[i].mimeType>>) >> >>]
    ELSE <<>>

RECURSIVE C6_Expected(_, _, _)
C6_Expected(b, old, i) ==
    IF i > Len(old) THEN <<>>
    ELSE C6_NewBefore(b, old[i]) \o << <<"old", old[i]>> >> \o C6_Expected(b, old, i+1)

\* a child of the picture after the step: an old node, or a new <source>
C6_Seen(b, id) ==
    IF id <= Len(b) THEN <<"old", id>>
    ELSE IF doc[id].Data = "source" /\ doc[id].children = <<>>
    THEN <<"new", doc[id].Attr>>
    ELSE <<"bad", id>>

----------------------------------------------------------------------------
(* Claims about ServeHTTP *)

\* the handler has decided the response of the current request
Answered == req.pc \in {"create", "write", "done"}

VirtualRequest == Answered /\ isOptimizedUrl(req.Path)

\* the body is the output of a conversion
IsConverted(body) == body.format # <<>>

\* the Content-Type the client receives: the one the handler set, else the one
\* net/http detects from the first bytes written
ClientContentType(r) ==
    IF r.ContentType # <<>> THEN r.ContentType ELSE DetectContentType(r.body)

\* the path of a virtual URL without ".pixbooster" and the extension
OriginalPath(path) == SubSeq(path, 1, Len(path) - 4)

\* C3: when a destination format F is disabled, every request for a virtual URL
\* ending in F's extension is answered 500, nothing is fetched and no converted
\* bytes are sent, whatever the cache storage holds.
C3_DisabledFormat ==
    ( /\ VirtualRequest
      /\ \E F \in DestFormatSet :
             HasSuffix(req.Path, F.extension) /\ ~isOutputFormatAllowed(req.p, F) )
    => ( /\ req.status = 500
         /\ req.fetched = None
         /\ ~IsConverted(req.body) )

\* C4: every 200 answer to a virtual URL of an enabled format F has Content-Type
\* MIME(F) and the F-encoding of the original as body, from a fresh conversion
\* and from the cache alike.
C4_TypeAndBody ==
    ( /\ VirtualRequest
      /\ req.status = 200
      /\ isOutputFormatAllowed(req.p, requestedFormat(req.Path)) )
    => ( /\ ClientContentType(req) = <<requestedFormat(req.Path).mimeType>>
         /\ req.body = Converted(getRootUrl(req.Host) \o OriginalPath(req.Path),
                                 requestedFormat(req.Path)) )

\* C9: no request and no served document ends the process.
C9_NeverFatal == alive

\* the media type of the header is text/html
DeclaresHtml(contentType) == Len(contentType) > 0 /\ contentType[1] = "text/html"

C10_Case ==
    /\ req.pc = "done"
    /\ ~isOptimizedUrl(req.Path)
    /\ req.hasNext
    /\ ~DeclaresHtml(req.next.ContentType)

----------------------------------------------------------------------------
(* Claims about which images the rewrite touches *)

\* the src ends in the extension of a source format the configuration disables
SrcDisabled(c, src) ==
    \/ c.Nojpeg /\ HasSuffix(src, <<".", "jpg">>)
    \/ c.Nopng /\ HasSuffix(src, <<".", "png">>)
    \/ c.Nowebpinput /\ HasSuffix(src, <<".", "webp">>)

\* the elements of tree d named tag
Elements(d, tag) == {x \in 1..Len(d) : d[x].Data = tag}

\* C11: an <img> whose src has the extension of a source format disabled by
\* nojpeg, nopng or nowebpinput is never wrapped in a <picture>, and a step that
\* works on it adds no <source>.
C11_DisabledInputUntouched ==
    (log.op = "wrap" /\ SrcDisabled(p, getAttr(log.before[log.n], "src")))
        => doc = log.before

\* the URL is relative, or absolute with the host of the site
SameOrigin(u, host) ==
    IF Len(u) > 0 /\ u[1] \in {"http://", "https://"}
    THEN Len(u) > 1 /\ <<u[2]>> = host
    ELSE TRUE

\* an <img> of the tree that collectImgs keeps if its src is same-origin
C12_Candidate(d, n) ==
    /\ d[n].Data = "img"
    /\ ~hasAttr(d[n], ignoreAttr)
    /\ ~HasPictureAncestor(d, n)
    /\ \E e \in {"jpg", "png", "webp"} : HasSuffix(getAttr(d[n], "src"), <<".", e>>)

\* C12: isSameSite(u) is true exactly when u is relative or names the host of
\* the site: among the <img> that pass the other tests of collectImgs, those
\* collected are exactly the same-origin ones.
C12_SameOrigin ==
    log.op = "collect" =>
        \A n \in 1..Len(doc) :
            C12_Candidate(doc, n) =>
                ( (\E i \in 1..Len(imgs) : imgs[i] = n)
                  <=> SameOrigin(getAttr(doc[n], "src"), siteHost) )

\* C19: wrapping an <img> that carries srcset and an eligible src adds exactly
\* one <source> per enabled destination format, the ones built from the srcset.
C19_SrcsetOnly ==
    ( /\ log.op = "wrap"
      /\ hasAttr(log.before[log.n], "srcset")
      /\ isInputFormatAllowed(p, getAttr(log.before[log.n], "src")) )
    => Cardinality(Elements(doc, "source"))
           = Cardinality(Elements(log.before, "source")) + Len(EnabledFormats(p))

\* C20: no destination extension is the extension of a source format: for
\* every destination format F and every URL U, the virtual URL
\* getOptimizedImageURL(U, F) does not pass isInputFormatAllowed.
C20_VirtualNeverInput ==
    optimizedURL # None => ~isInputFormatAllowed(p, optimizedURL)

----------------------------------------------------------------------------
(* Claims about the conversion and the cache *)

\* C13: on a cache miss with a successful conversion the client gets the
\* converted bytes with status 200 and the request does not fail, whether the
\* cache file could be created and written or not.
C13_WriteFailureHarmless ==
    ( /\ req.pc = "done"
      /\ isOptimizedUrl(req.Path)
      /\ ~req.fromCache
      /\ IsConverted(req.data) )
    => ( /\ req.status = 200
         /\ req.body = req.data
         /\ ~req.err )

\* the path holds the marker and ends in none of .jxl, .avif, .webp
UnknownExtension(path) ==
    /\ \E i \in 1..Len(path) : path[i] = "pixbooster"
    /\ \A e \in {"jxl", "avif", "webp"} : ~HasSuffix(path, <<".", e>>)

\* status 400, nothing fetched, nothing converted, no cache file for the path
Refused400(r, st) ==
    /\ r.status = 400
    /\ r.pc = "done"
    /\ r.fetched = None
    /\ ~IsConverted(r.body)
    /\ \A e \in st : e.name # <<"md5", r.Path>>

C15_HitOnlyAfterFormatCheck ==
    (Answered /\ req.fromCache) =>
        \E F \in DestFormatSet :
            /\ HasSuffix(req.Path, F.extension)
            /\ isOutputFormatAllowed(req.p, F)

\* the converted bytes the cache file named name has to hold
CompleteEntry(name) ==
    Converted(getRootUrl(siteHost) \o OriginalPath(name[2]), requestedFormat(name[2]))

\* C16: in every state, under every interleaving of two requests for the same
\* virtual URL, a cache entry is the complete converted bytes, and no request
\* serves an empty or partial entry as a cache hit.
C16_CacheIntegrity ==
    /\ \A e \in storage : e.data = CompleteEntry(e.name)
    /\ (Answered /\ req.fromCache) => req.body = CompleteEntry(<<"md5", req.Path>>)
    /\ (other.pc \in {"create", "write", "done"} /\ other.fromCache)
           => other.body = CompleteEntry(<<"md5", other.Path>>)

\* the declared Content-Type is not the one of an enabled source format
NotEnabledSource(c, contentType) ==
    \/ contentType \notin {"image/jpeg", "image/png", "image/webp"}
    \/ contentType = "image/jpeg" /\ c.Nojpeg
    \/ contentType = "image/png" /\ c.Nopng
    \/ contentType = "image/webp" /\ c.Nowebpinput

\* status 500, no converted bytes, no cache write started
Failed500(r) ==
    /\ r.status = 500
    /\ r.pc = "done"
    /\ ~IsConverted(r.body)
    /\ ~IsConverted(r.data)

\* C17: when the declared Content-Type of the fetched original is unrecognized
\* or belongs to a source format disabled by configuration, the request is
\* answered 500 and nothing is encoded or cached.
C17_EnabledSourceOnly ==
    ( /\ Answered
      /\ req.fetched # None
      /\ req.upstream.kind = "resp"
      /\ NotEnabledSource(req.p, req.upstream.contentType) )
    => Failed500(req)

\* C18: when the fetch of the original fails or returns a non-success status,
\* the request is answered 500, no converted bytes are sent and no cache entry
\* is created.
C18_FetchFailure500 ==
    ( /\ Answered
      /\ req.fetched # None
      /\ \/ req.upstream.kind = "error"
         \/ req.upstream.status \notin 200..299 )
    => Failed500(req)

----------------------------------------------------------------------------
(* Claims about the course of one request *)

\* the outcome of an answered request for a virtual URL
VirtualTerminal(r) ==
    /\ r.status \in {200, 400, 500}
    /\ r.nextCalls = 0

\* the outcome of an answered request for any other URL
PassthroughTerminal(r) ==
    /\ r.pc = "done"
    /\ \/ r.hasNext /\ r.nextCalls = 1
       \/ ~r.hasNext /\ r.nextCalls = 0 /\ r.status = 404
    /\ r.fetched = None
    /\ ~r.fromCache
    /\ ~IsConverted(r.data)

\* C21: every request reaches its terminal outcome: a request being served is
\* never left without an answer by the end of the process; a virtual URL ends in
\* one of 200, 400, 500 and never calls the downstream handler; any other URL
\* calls the downstream handler exactly once (or gets 404 when there is none)
\* and never fetches, converts or uses the cache.
C21_StateMachine ==
    /\ req.pc = "serve" => alive
    /\ (Answered /\ isOptimizedUrl(req.Path)) => VirtualTerminal(req)
    /\ (Answered /\ ~isOptimizedUrl(req.Path)) => PassthroughTerminal(req)

\* the request got its answer from the cache and the answer holds converted
\* bytes
ConvertedHit(r) == Answered /\ r.fromCache /\ IsConverted(r.body)

\* C22: a cache hit for a request (host H, original path P, format F) returns
\* bytes produced by converting the original at (H, P) into F, never bytes
\* stored for another format, another host or another path.
C22_CacheIsolation ==
    ConvertedHit(req) =>
        /\ req.body.of = <<"http://">> \o req.Host \o OriginalPath(req.Path)
        /\ \E F \in DestFormatSet :
               HasSuffix(req.Path, F.extension) /\ req.body.format = F.extension

\* the original a request fetched is on the host of that request
OwnRoot(r) ==
    (r.pc \in {"create", "write", "done"} /\ r.fetched # None)
        => HasPrefix(r.fetched, <<"http://">> \o r.Host)

\* the flags a request works with are those of the configuration
OwnFlags(r) == r.pc # "idle" => r.p = p

====
